---- MODULE Spec2Model ----
(***************************************************************************)
(* The name-records HTTP service of src/main.go: the default ServeMux with *)
(* its three routes behind corsMiddleware, the handlers healthHandler,     *)
(* namesHandler and nameByIDHandler, and the MongoDB collection they work  *)
(* on.  Strings are sequences of one-character strings, so that the path   *)
(* and name functions (HasPrefix, Trim, Split, TrimSpace, ObjectIDFromHex) *)
(* are computed the way the code computes them.                            *)
(*                                                                         *)
(* Every handler makes at most one call on the collection, and that call   *)
(* is atomic in the store (a single-document operation, or one Find), so a *)
(* handler is one step: any interleaving of concurrent requests is a       *)
(* sequence of such steps.  A request is served from the idle state and    *)
(* its request/response pair is dropped by Done.                           *)
(***************************************************************************)
EXTENDS Integers, Sequences, FiniteSets, TLC

\* ------------------------------------------------------------------ bounds
MaxCreates == 2      \* identifiers the driver can still hand out (successful inserts)
MaxFailures == 1     \* calls on the store that fail or time out in one run
MaxPad == 1          \* most white space on either side of a `name` in a request body

\* ------------------------------------------------------- program constants
HexLen == 24         \* primitive.ObjectIDFromHex: an ObjectID is 24 hex digits

\* ------------------------------------------------------------------ strings
Slash == <<"/">>

HasPrefix(s, p) == Len(s) >= Len(p) /\ SubSeq(s, 1, Len(p)) = p

TrimPrefix(s, p) == IF HasPrefix(s, p) THEN SubSeq(s, Len(p) + 1, Len(s)) ELSE s

\* strings.Trim(s, cutset): drop leading and trailing characters of cutset
RECURSIVE TrimLeftSet(_, _)
TrimLeftSet(s, cut) ==
    IF s # <<>> /\ Head(s) \in cut THEN TrimLeftSet(Tail(s), cut) ELSE s

RECURSIVE TrimRightSet(_, _)
TrimRightSet(s, cut) ==
    IF s # <<>> /\ s[Len(s)] \in cut
    THEN TrimRightSet(SubSeq(s, 1, Len(s) - 1), cut)
    ELSE s

Trim(s, cut) == TrimRightSet(TrimLeftSet(s, cut), cut)

\* the characters strings.TrimSpace cuts (unicode.IsSpace, on the model's alphabet)
WhiteSpace == {" ", "\t", "\n", "\r"}

\* fault variants of TrimSpace: only the leading white space cut, nothing cut
TrimSpace_OnlyLeft(s) == TrimLeftSet(s, WhiteSpace)

TrimSpace_Identity(s) == s

TrimSpace(s) == TrimRightSet(TrimLeftSet(s, WhiteSpace), WhiteSpace)

\* strings.Split(s, "/"): the fields between separators; Split("", "/") = [""]
RECURSIVE SplitFrom(_, _, _)
SplitFrom(s, sep, cur) ==
    IF s = <<>> THEN <<cur>>
    ELSE IF Head(s) = sep THEN <<cur>> \o SplitFrom(Tail(s), sep, <<>>)
    ELSE SplitFrom(Tail(s), sep, Append(cur, Head(s)))

Split(s, sep) == SplitFrom(s, sep, <<>>)

\* --------------------------------------------------------------- ObjectIDs
HexLower == <<"0","1","2","3","4","5","6","7","8","9","a","b","c","d","e","f">>
HexUpper == <<"0","1","2","3","4","5","6","7","8","9","A","B","C","D","E","F">>

\* encoding/hex fromHexChar: the digit's value, or -1 for a non-hex character
HexVal(c) ==
    IF \E i \in 1..16 : HexLower[i] = c THEN (CHOOSE i \in 1..16 : HexLower[i] = c) - 1
    ELSE IF \E i \in 1..16 : HexUpper[i] = c THEN (CHOOSE i \in 1..16 : HexUpper[i] = c) - 1
    ELSE -1

NilObjectID == [i \in 1..HexLen |-> 0]

\* fault variant of ObjectIDFromHex: the length is not checked
ObjectIDFromHex_NoLenCheck(s) ==
    IF \E i \in 1..Len(s) : HexVal(s[i]) < 0
    THEN [err |-> TRUE, oid |-> NilObjectID]
    ELSE [err |-> FALSE,
          oid |-> [i \in 1..HexLen |-> IF i <= Len(s) THEN HexVal(s[i]) ELSE 0]]

\* primitive.ObjectIDFromHex: exactly 24 characters, all of them hex digits of
\* either case; the ObjectID is the sequence of the digits' values
ObjectIDFromHex(s) ==
    IF Len(s) # HexLen THEN [err |-> TRUE, oid |-> NilObjectID]
    ELSE IF \E i \in 1..Len(s) : HexVal(s[i]) < 0
    THEN [err |-> TRUE, oid |-> NilObjectID]
    ELSE [err |-> FALSE, oid |-> [i \in 1..HexLen |-> HexVal(s[i])]]

\* ObjectID.Hex(), as Name.ID is written by encoding/json: lower-case digits
Hex(oid) == [i \in 1..Len(oid) |-> HexLower[oid[i] + 1]]

\* ------------------------------------------------------------ the collection
\* A document is [id, name]; the collection keeps its documents in natural
\* (insertion) order.  `how` is the outcome of the call on the store:
\*   "ok"    the store answers within the deadline;
\*   "err"   the call fails and the store is untouched;
\*   "late"  the deadline expires after the store has applied the operation.
Failed(how) == how # "ok"
Applied(how) == how # "err"

IndexOf(c, oid) ==
    IF \E i \in 1..Len(c) : c[i].id = oid
    THEN CHOOSE i \in 1..Len(c) : c[i].id = oid /\ \A j \in 1..(i - 1) : c[j].id # oid
    ELSE 0

RemoveAt(c, i) == SubSeq(c, 1, i - 1) \o SubSeq(c, i + 1, Len(c))

\* collection.InsertOne(ctx, bson.M{"name": name}): the driver gives the
\* document the ObjectID newId it has just generated
InsertOne(c, name, newId, how) ==
    [err |-> Failed(how),
     InsertedID |-> newId,
     col |-> IF Applied(how) THEN Append(c, [id |-> newId, name |-> name]) ELSE c]

\* collection.Find(ctx, bson.D{}): a cursor over every document
Find(c, how) == [err |-> Failed(how), cur |-> c]

\* collection.FindOne(ctx, bson.M{"_id": oid}).Decode(&n)
FindOne(c, oid, how) ==
    IF Failed(how) THEN [err |-> "error", doc |-> [id |-> NilObjectID, name |-> <<>>]]
    ELSE IF IndexOf(c, oid) = 0
    THEN [err |-> "ErrNoDocuments", doc |-> [id |-> NilObjectID, name |-> <<>>]]
    ELSE [err |-> "nil", doc |-> c[IndexOf(c, oid)]]

\* fault variant of UpdateByID: every document is updated once one matches
UpdateByID_All(c, oid, name, how) ==
    [err |-> Failed(how),
     MatchedCount |-> IF IndexOf(c, oid) = 0 THEN 0 ELSE 1,
     col |-> IF Applied(how) /\ IndexOf(c, oid) # 0
             THEN [i \in 1..Len(c) |-> [c[i] EXCEPT !.name = name]]
             ELSE c]

\* collection.UpdateByID(ctx, oid, {"$set": {"name": name}})
UpdateByID(c, oid, name, how) ==
    [err |-> Failed(how),
     MatchedCount |-> IF IndexOf(c, oid) = 0 THEN 0 ELSE 1,
     col |-> IF Applied(how) /\ IndexOf(c, oid) # 0
             THEN [c EXCEPT ![IndexOf(c, oid)].name = name]
             ELSE c]

\* fault variant of DeleteOne: the filter is ignored
DeleteOne_First(c, oid, how) ==
    [err |-> Failed(how),
     DeletedCount |-> IF c = <<>> THEN 0 ELSE 1,
     col |-> IF Applied(how) /\ c # <<>> THEN Tail(c) ELSE c]

\* collection.DeleteOne(ctx, bson.M{"_id": oid})
DeleteOne(c, oid, how) ==
    [err |-> Failed(how),
     DeletedCount |-> IF IndexOf(c, oid) = 0 THEN 0 ELSE 1,
     col |-> IF Applied(how) /\ IndexOf(c, oid) # 0
             THEN RemoveAt(c, IndexOf(c, oid))
             ELSE c]

\* ------------------------------------------------------------------- JSON
\* type Name struct { ID primitive.ObjectID `json:"id,omitempty"`; Name string `json:"name"` }
\* as encoding/json writes it: omitempty never omits an array type, so "id" is
\* always there, as the lower-case hex of the ObjectID.
JName(n) == [kind |-> "object", keys |-> {"id", "name"}, id |-> Hex(n.ID), name |-> n.Name]

JNull == [kind |-> "null"]

\* a slice: a nil slice is written as null, any other as an array
NilSlice == [nil |-> TRUE, elems |-> <<>>]
AppendSlice(sl, x) == [nil |-> FALSE, elems |-> Append(sl.elems, x)]
JSlice(sl) ==
    IF sl.nil THEN JNull
    ELSE [kind |-> "array", items |-> [i \in 1..Len(sl.elems) |-> JName(sl.elems[i])]]

JError(msg) == [kind |-> "object", keys |-> {"error"}, error |-> msg]

\* json.NewDecoder(r.Body).Decode(&payload) with payload a Name: the body must
\* hold a JSON value; null leaves payload untouched; in an object, "name" must
\* be a string (or null/absent) and "id", when there, a well-formed ObjectID.
DecodeName(b) ==
    IF b.kind \in {"empty", "invalid"} THEN [err |-> TRUE, Name |-> <<>>]
    ELSE IF b.kind = "null" THEN [err |-> FALSE, Name |-> <<>>]
    ELSE IF b.idKind = "string" /\ b.id # <<>> /\ ObjectIDFromHex(b.id).err
    THEN [err |-> TRUE, Name |-> <<>>]
    ELSE IF b.nameKind = "number" THEN [err |-> TRUE, Name |-> <<>>]
    ELSE IF b.nameKind = "absent" THEN [err |-> FALSE, Name |-> <<>>]
    ELSE [err |-> FALSE, Name |-> b.name]

\* the same with payload a struct{ Name string `json:"name"` }: "id" is ignored
DecodePayload(b) ==
    IF b.kind \in {"empty", "invalid"} THEN [err |-> TRUE, Name |-> <<>>]
    ELSE IF b.kind = "null" THEN [err |-> FALSE, Name |-> <<>>]
    ELSE IF b.nameKind = "number" THEN [err |-> TRUE, Name |-> <<>>]
    ELSE IF b.nameKind = "absent" THEN [err |-> FALSE, Name |-> <<>>]
    ELSE [err |-> FALSE, Name |-> b.name]

\* ------------------------------------------------------- response helpers
NoBodyOut == [kind |-> "none"]

\* a response: status, the Content-Type and Allow headers, whether the CORS
\* headers are set, and the body
jsonWrite(status, v) ==
    [status |-> status, ContentType |-> "application/json", Allow |-> <<>>,
     cors |-> FALSE, body |-> v]

ok(v) == jsonWrite(200, v)
created(v) == jsonWrite(201, v)
badRequest(msg) == jsonWrite(400, JError(msg))
notFound == jsonWrite(404, JError("not found"))
internal(err) == jsonWrite(500, JError(err))
noContent ==
    [status |-> 204, ContentType |-> "", Allow |-> <<>>, cors |-> FALSE, body |-> NoBodyOut]

\* fault variant of methodNotAllowed: the collection route's list, always
methodNotAllowed_GetPost(allowed) ==
    [jsonWrite(405, [kind |-> "object", keys |-> {"error", "allow"},
                     error |-> "method not allowed", allow |-> <<"GET", "POST">>])
        EXCEPT !.Allow = <<"GET", "POST">>]

methodNotAllowed(allowed) ==
    [jsonWrite(405, [kind |-> "object", keys |-> {"error", "allow"},
                     error |-> "method not allowed", allow |-> allowed])
        EXCEPT !.Allow = allowed]

\* ------------------------------------------------------------------ routing
P_health == <<"/","h","e","a","l","t","h">>
P_names == <<"/","n","a","m","e","s">>
P_namesSlash == <<"/","n","a","m","e","s","/">>

\* net/http cleanPath on the paths of the model (no "." or ".." elements):
\* runs of slashes collapse to one, a trailing slash is kept
RECURSIVE cleanPath(_)
cleanPath(p) ==
    IF Len(p) < 2 THEN p
    ELSE IF p[1] = "/" /\ p[2] = "/" THEN cleanPath(Tail(p))
    ELSE <<Head(p)>> \o cleanPath(Tail(p))

\* http.DefaultServeMux with the patterns registered in main: "/health" and
\* "/names" match exactly, "/names/" matches every path below it
Route(p) ==
    IF p = P_health THEN "healthHandler"
    ELSE IF p = P_names THEN "namesHandler"
    ELSE IF HasPrefix(p, P_namesSlash) THEN "nameByIDHandler"
    ELSE "NotFound"

\* fault variant of extractID: the last segment instead of the first
extractID_Last(path, prefix) ==
    IF ~HasPrefix(path, prefix) THEN [err |-> TRUE, id |-> <<>>]
    ELSE LET rest == TrimPrefix(path, prefix)
             parts == Split(Trim(rest, {"/"}), "/")
         IN  IF Len(parts) < 1 \/ parts[1] = <<>>
             THEN [err |-> TRUE, id |-> <<>>]
             ELSE [err |-> FALSE, id |-> parts[Len(parts)]]

extractID(path, prefix) ==
    IF ~HasPrefix(path, prefix) THEN [err |-> TRUE, id |-> <<>>]
    ELSE LET rest == TrimPrefix(path, prefix)
             parts == Split(Trim(rest, {"/"}), "/")
         IN  IF Len(parts) < 1 \/ parts[1] = <<>>
             THEN [err |-> TRUE, id |-> <<>>]
             ELSE [err |-> FALSE, id |-> parts[1]]

\* ----------------------------------------------------------------- handlers
\* A handler yields the response w it writes, the collection it leaves and
\* the calls it made on the collection (ops).
Out(resp, c, calls) == [w |-> resp, col |-> c, ops |-> calls]

healthHandler(r, c) ==
    Out(ok([kind |-> "object", keys |-> {"status"}, status |-> "ok"]), c, <<>>)

\* for cur.Next(ctx) { cur.Decode(&n); out = append(out, n) }
\* fault variant of Drain: the loop stops one document early
RECURSIVE Drain_OffByOne(_, _)
Drain_OffByOne(cur, out) ==
    IF Len(cur) <= 1 THEN out
    ELSE Drain_OffByOne(Tail(cur),
                        AppendSlice(out, [ID |-> Head(cur).id, Name |-> Head(cur).name]))

RECURSIVE Drain(_, _)
Drain(cur, out) ==
    IF cur = <<>> THEN out
    ELSE Drain(Tail(cur), AppendSlice(out, [ID |-> Head(cur).id, Name |-> Head(cur).name]))

namesHandler(r, c, newId, how) ==
    CASE r.method = "POST" ->
            LET d == DecodeName(r.body)
                name == TrimSpace(d.Name)
                res == InsertOne(c, name, newId, how)
            IN  IF d.err THEN Out(badRequest("invalid JSON"), c, <<>>)
                ELSE IF name = <<>> THEN Out(badRequest("name is required"), c, <<>>)
                ELSE IF res.err THEN Out(internal("store error"), res.col, <<"InsertOne">>)
                ELSE Out(created(JName([ID |-> res.InsertedID, Name |-> name])),
                         res.col, <<"InsertOne">>)
      [] r.method = "GET" ->
            LET res == Find(c, how)
            IN  IF res.err THEN Out(internal("store error"), c, <<"Find">>)
                ELSE Out(ok(JSlice(Drain(res.cur, NilSlice))), c, <<"Find">>)
      [] OTHER -> Out(methodNotAllowed(<<"GET", "POST">>), c, <<>>)

nameByIDHandler(r, c, how) ==
    LET x == extractID(r.path, P_namesSlash)
        p == ObjectIDFromHex(x.id)
        oid == p.oid
    IN  IF x.err THEN Out(notFound, c, <<>>)
        ELSE IF p.err THEN Out(badRequest("invalid id"), c, <<>>)
        ELSE CASE r.method = "GET" ->
                    LET res == FindOne(c, oid, how)
                    IN  IF res.err = "ErrNoDocuments" THEN Out(notFound, c, <<"FindOne">>)
                        ELSE IF res.err # "nil"
                        THEN Out(internal("store error"), c, <<"FindOne">>)
                        ELSE Out(ok(JName([ID |-> res.doc.id, Name |-> res.doc.name])),
                                 c, <<"FindOne">>)
               [] r.method = "PUT" ->
                    LET d == DecodePayload(r.body)
                        name == TrimSpace(d.Name)
                        res == UpdateByID(c, oid, name, how)
                    IN  IF d.err THEN Out(badRequest("invalid JSON"), c, <<>>)
                        ELSE IF name = <<>>
                        THEN Out(badRequest("name is required"), c, <<>>)
                        ELSE IF res.err
                        THEN Out(internal("store error"), res.col, <<"UpdateByID">>)
                        ELSE IF res.MatchedCount = 0
                        THEN Out(notFound, res.col, <<"UpdateByID">>)
                        ELSE Out(ok(JName([ID |-> oid, Name |-> name])),
                                 res.col, <<"UpdateByID">>)
               [] r.method = "DELETE" ->
                    LET res == DeleteOne(c, oid, how)
                    IN  IF res.err THEN Out(internal("store error"), res.col, <<"DeleteOne">>)
                        ELSE IF res.DeletedCount = 0
                        THEN Out(notFound, res.col, <<"DeleteOne">>)
                        ELSE Out(noContent, res.col, <<"DeleteOne">>)
               [] OTHER -> Out(methodNotAllowed(<<"GET", "PUT", "DELETE">>), c, <<>>)

\* http.NotFound, the mux's handler for a path no pattern matches
muxNotFound(c) ==
    Out([status |-> 404, ContentType |-> "text/plain; charset=utf-8", Allow |-> <<>>,
         cors |-> FALSE, body |-> [kind |-> "text", text |-> "404 page not found"]],
        c, <<>>)

\* the mux's redirect to the cleaned path
muxRedirect(c) ==
    Out([status |-> 301, ContentType |-> "", Allow |-> <<>>, cors |-> FALSE,
         body |-> NoBodyOut],
        c, <<>>)

\* func corsMiddleware(next): the CORS headers are set on every response, and
\* an OPTIONS request is answered 204 before the mux sees it
corsMiddleware(r, c, next) ==
    IF r.method = "OPTIONS"
    THEN Out([noContent EXCEPT !.cors = TRUE], c, <<>>)
    ELSE [next EXCEPT !.w.cors = TRUE]

\* ------------------------------------------------------------------- inputs
Zeros(n) == [i \in 1..n |-> "0"]

\* the ObjectIDs the driver generates for inserted documents: pairwise
\* distinct, MaxCreates of them (0...0a, 0...0b, ...)
IdPool == {[i \in 1..HexLen |-> IF i < HexLen THEN 0 ELSE 9 + k] : k \in 1..MaxCreates}

\* identifier segments of request paths: each pooled ObjectID in lower and in
\* upper case, and malformed ones (too short, too long, a non-hex digit, text)
WellFormedSegs ==
    {Zeros(HexLen - 1) \o <<HexLower[10 + k]>> : k \in 1..MaxCreates}
        \cup {Zeros(HexLen - 1) \o <<HexUpper[10 + k]>> : k \in 1..MaxCreates}

\* the path segment a client makes of an ObjectID it was given
ObjectSeg(o) == [i \in 1..Len(o) |-> HexLower[o[i] + 1]]

NotAnId == <<"n","o","t","-","a","n","-","i","d">>

MalformedSegs ==
    {Zeros(HexLen - 1), Zeros(HexLen + 1), Zeros(HexLen - 1) \o <<"g">>, NotAnId}

Segs == WellFormedSegs \cup MalformedSegs

Suffixes == {<<>>, Slash, <<"/","x">>, <<"/","x","/","y">>}

Paths ==
    {Slash, P_health, P_health \o Slash, P_names, P_namesSlash,
     P_names \o <<"x">>, <<"/","f","o","o">>, P_namesSlash \o Slash \o NotAnId}
        \cup {P_namesSlash \o s : s \in Segs}
        \cup {P_namesSlash \o s \o suf : s \in WellFormedSegs \cup {NotAnId}, suf \in Suffixes}

Methods == {"GET", "POST", "PUT", "DELETE", "PATCH", "OPTIONS"}

\* the `name` strings of request bodies: nothing, a word or two words, with up
\* to MaxPad white-space characters before and after
Cores == {<<>>, <<"a">>, <<"b", " ", "c">>}
Pads == {[i \in 1..k |-> IF i % 2 = 1 THEN " " ELSE "\t"] : k \in 0..MaxPad}
RawNames == {l \o core \o t : l \in Pads, core \in Cores, t \in Pads}

\* request bodies, by what encoding/json makes of them: no body at all, text
\* that is not JSON, null, or an object with an optional "id" and "name"
Body(kind, idKind, id, nameKind, name) ==
    [kind |-> kind, idKind |-> idKind, id |-> id, nameKind |-> nameKind, name |-> name]

EmptyBody == Body("empty", "absent", <<>>, "absent", <<>>)
NameBody(s) == Body("object", "absent", <<>>, "string", s)

Bodies ==
    {EmptyBody,
     Body("invalid", "absent", <<>>, "absent", <<>>),
     Body("null", "absent", <<>>, "absent", <<>>),
     Body("object", "absent", <<>>, "absent", <<>>),
     Body("object", "absent", <<>>, "number", <<>>),
     Body("object", "string", Zeros(HexLen - 1) \o <<"a">>, "string", <<"a">>),
     Body("object", "string", NotAnId, "string", <<"a">>)}
        \cup {NameBody(s) : s \in RawNames}

\* http.DefaultServeMux.ServeHTTP on each path of the model: the redirect to
\* the cleaned path, or the handler whose pattern matches
Dispatch == [p \in Paths |-> IF cleanPath(p) # p THEN "Redirect" ELSE Route(p)]

Request(m, p, b) == [method |-> m, path |-> p, body |-> b]

\* every method on every path without a body, POST and PUT on every path with
\* {"name":"a"}, and every body on the two routes whose handlers read it
Requests ==
    {Request(m, p, EmptyBody) : m \in Methods, p \in Paths}
        \cup {Request(m, p, NameBody(<<"a">>)) : m \in {"POST", "PUT"}, p \in Paths}
        \cup {Request("POST", P_names, b) : b \in Bodies}
        \cup {Request("PUT", P_namesSlash \o ObjectSeg(o), b) : o \in IdPool, b \in Bodies}
        \cup {Request("PUT", P_namesSlash \o NotAnId, b) : b \in Bodies}

\* the requests served while the store may fail: the create, list, read,
\* update and delete requests with a body of each kind, and one request for
\* each other way through the mux and the handlers
CoreBodies ==
    {EmptyBody,
     Body("object", "absent", <<>>, "absent", <<>>),
     Body("object", "string", Zeros(HexLen - 1) \o <<"a">>, "string", <<"a">>),
     NameBody(<<" ">>),
     NameBody(<<" ", "a", " ">>),
     NameBody(<<"b", " ", "c">>)}

CoreRequests ==
    {Request("GET", P_health, EmptyBody),
     Request("GET", <<"/","f","o","o">>, EmptyBody),
     Request("GET", P_namesSlash \o Slash \o NotAnId, EmptyBody),
     Request("GET", P_namesSlash \o NotAnId, EmptyBody),
     Request("GET", P_namesSlash, EmptyBody),
     Request("OPTIONS", P_names, EmptyBody),
     Request("PATCH", P_names, EmptyBody),
     Request("GET", P_names, EmptyBody)}
        \cup {Request(m, P_namesSlash \o ObjectSeg(o), EmptyBody) :
                m \in {"GET", "DELETE", "PATCH"}, o \in IdPool}
        \cup {Request("POST", P_names, b) : b \in CoreBodies}
        \cup {Request("PUT", P_namesSlash \o ObjectSeg(o), b) : o \in IdPool, b \in CoreBodies}

Outcomes == {"ok", "err", "late"}

\* -------------------------------------------------------------------- state
VARIABLES
    col,        \* the collection: a sequence of documents [id, name]
    issued,     \* the ObjectIDs the driver has generated so far
    pc,         \* "idle", or "served" once the request req has its response w
    req,        \* the request being served
    w,          \* the response written to it
    ops,        \* the calls the handler made on the collection
    last,       \* per ObjectID, the last successful write answered for it
    nCreated,   \* responses 201 to POST /names so far
    nDeleted,   \* responses 204 to DELETE /names/<id> so far
    nFailed     \* calls on the store that failed or timed out so far

vars == <<col, issued, pc, req, w, ops, last, nCreated, nDeleted, nFailed>>

NoRequest == Request("", <<>>, EmptyBody)
NoResponse == [status |-> 0, ContentType |-> "", Allow |-> <<>>, cors |-> FALSE,
               body |-> NoBodyOut]
NoWrite == [via |-> "none", name |-> <<>>]

Init ==
    /\ col = <<>>
    /\ issued = {}
    /\ pc = "idle"
    /\ req = NoRequest
    /\ w = NoResponse
    /\ ops = <<>>
    /\ last = [o \in IdPool |-> NoWrite]
    /\ nCreated = 0
    /\ nDeleted = 0
    /\ nFailed = 0

Ids(c) == {c[i].id : i \in 1..Len(c)}

\* the bookkeeping of what the client has been told
Written(r, res) ==
    LET same(o) == \/ o \notin Ids(col) \cup Ids(res.col)
                   \/ /\ IndexOf(col, o) # 0
                      /\ IndexOf(res.col, o) # 0
                      /\ col[IndexOf(col, o)] = res.col[IndexOf(res.col, o)]
        cleared == [o \in IdPool |-> IF same(o) THEN last[o] ELSE NoWrite]
    IN  IF r.method = "POST" /\ res.w.status = 201 /\ "id" \in DOMAIN res.w.body
        THEN [cleared EXCEPT ![ObjectIDFromHex(res.w.body.id).oid] =
                                [via |-> "POST", name |-> res.w.body.name]]
        ELSE IF r.method = "PUT" /\ res.w.status = 200 /\ "id" \in DOMAIN res.w.body
        THEN [cleared EXCEPT ![ObjectIDFromHex(res.w.body.id).oid] =
                                [via |-> "PUT", name |-> res.w.body.name]]
        ELSE cleared

Respond(r, res, how) ==
    /\ (Failed(how) /\ res.ops # <<>>) => nFailed < MaxFailures
    /\ nFailed' = IF Failed(how) /\ res.ops # <<>> THEN nFailed + 1 ELSE nFailed
    /\ pc' = "served"
    /\ req' = r
    /\ w' = res.w
    /\ ops' = res.ops
    /\ col' = res.col
    /\ last' = Written(r, res)
    /\ nCreated' = IF r.method = "POST" /\ res.w.status = 201 THEN nCreated + 1 ELSE nCreated
    /\ nDeleted' = IF r.method = "DELETE" /\ res.w.status = 204 THEN nDeleted + 1 ELSE nDeleted

\* ------------------------------------------------------------------ actions
Options(r) ==
    /\ pc = "idle"
    /\ r.method = "OPTIONS"
    /\ Respond(r, corsMiddleware(r, col, Out(NoResponse, col, <<>>)), "ok")
    /\ UNCHANGED issued

Redirect(r) ==
    /\ pc = "idle"
    /\ r.method # "OPTIONS"
    /\ Dispatch[r.path] = "Redirect"
    /\ Respond(r, corsMiddleware(r, col, muxRedirect(col)), "ok")
    /\ UNCHANGED issued

Unrouted(r) ==
    /\ pc = "idle"
    /\ r.method # "OPTIONS"
    /\ Dispatch[r.path] = "NotFound"
    /\ Respond(r, corsMiddleware(r, col, muxNotFound(col)), "ok")
    /\ UNCHANGED issued

Health(r) ==
    /\ pc = "idle"
    /\ r.method # "OPTIONS"
    /\ Dispatch[r.path] = "healthHandler"
    /\ Respond(r, corsMiddleware(r, col, healthHandler(r, col)), "ok")
    /\ UNCHANGED issued

\* an insert uses up one of the driver's ObjectIDs, whatever its outcome
Names(r, how) ==
    /\ pc = "idle"
    /\ r.method # "OPTIONS"
    /\ Dispatch[r.path] = "namesHandler"
    /\ IF namesHandler(r, col, NilObjectID, how).ops = <<"InsertOne">>
       THEN \E newId \in IdPool \ issued :
               /\ issued' = issued \cup {newId}
               /\ Respond(r, corsMiddleware(r, col, namesHandler(r, col, newId, how)), how)
       ELSE /\ UNCHANGED issued
            /\ Respond(r, corsMiddleware(r, col, namesHandler(r, col, NilObjectID, how)), how)

NameByID(r, how) ==
    /\ pc = "idle"
    /\ r.method # "OPTIONS"
    /\ Dispatch[r.path] = "nameByIDHandler"
    /\ Respond(r, corsMiddleware(r, col, nameByIDHandler(r, col, how)), how)
    /\ UNCHANGED issued

\* the handler has returned: the request and its response are gone
Done ==
    /\ pc = "served"
    /\ pc' = "idle"
    /\ req' = NoRequest
    /\ w' = NoResponse
    /\ ops' = <<>>
    /\ UNCHANGED <<col, issued, last, nCreated, nDeleted, nFailed>>

\* the store answers every call within its deadline
Next ==
    \/ pc = "idle" /\ \E r \in Requests : Options(r)
    \/ pc = "idle" /\ \E r \in Requests : Redirect(r)
    \/ pc = "idle" /\ \E r \in Requests : Unrouted(r)
    \/ pc = "idle" /\ \E r \in Requests : Health(r)
    \/ pc = "idle" /\ \E r \in Requests : Names(r, "ok")
    \/ pc = "idle" /\ \E r \in Requests : NameByID(r, "ok")
    \/ Done

Spec == Init /\ [][Next]_vars

\* calls on the store may also fail, or time out after taking effect, up to
\* MaxFailures times
NextFail ==
    \/ pc = "idle" /\ \E r \in CoreRequests : Options(r)
    \/ pc = "idle" /\ \E r \in CoreRequests : Redirect(r)
    \/ pc = "idle" /\ \E r \in CoreRequests : Unrouted(r)
    \/ pc = "idle" /\ \E r \in CoreRequests : Health(r)
    \/ pc = "idle" /\ \E r \in CoreRequests, how \in Outcomes : Names(r, how)
    \/ pc = "idle" /\ \E r \in CoreRequests, how \in Outcomes : NameByID(r, how)
    \/ Done

SpecFail == Init /\ [][NextFail]_vars

\* ============================================================== properties
Served == pc = "served"
Serving == pc = "idle" /\ pc' = "served"

ItemPath(seg) == P_namesSlash \o seg

HexDigits == {HexLower[i] : i \in 1..16} \cup {HexUpper[i] : i \in 1..16}

\* seg is a well-formed identifier: 24 hex digits
WellFormed(seg) == Len(seg) = HexLen /\ \A i \in 1..Len(seg) : seg[i] \in HexDigits

\* seg writes the ObjectID o, in either case
Denotes(seg, o) ==
    /\ Len(seg) = Len(o)
    /\ \A i \in 1..Len(seg) : seg[i] \in {HexLower[o[i] + 1], HexUpper[o[i] + 1]}

InStore(c, seg) == \E i \in 1..Len(c) : Denotes(seg, c[i].id)

\* t is raw without its leading and trailing white space
IsTrimOf(t, raw) ==
    \E i \in 0..Len(raw), j \in 0..Len(raw) :
        /\ i + j <= Len(raw)
        /\ t = SubSeq(raw, i + 1, Len(raw) - j)
        /\ \A k \in 1..i : raw[k] \in WhiteSpace
        /\ \A k \in (Len(raw) - j + 1)..Len(raw) : raw[k] \in WhiteSpace
        /\ t # <<>> => (t[1] \notin WhiteSpace /\ t[Len(t)] \notin WhiteSpace)

Blank(str) == \A k \in 1..Len(str) : str[k] \in WhiteSpace

\* a body that is a JSON object with a `name` that is not blank
GoodBody(b) == b.kind = "object" /\ b.nameKind = "string" /\ ~Blank(b.name)

\* a body that is no JSON, or whose `name` is missing, empty or white space
BadBody(b) ==
    \/ b.kind \in {"empty", "invalid", "null"}
    \/ b.kind = "object" /\ b.nameKind = "absent"
    \/ b.kind = "object" /\ b.nameKind = "string" /\ Blank(b.name)

\* the JSON of the Record with ObjectID o and the given name
RecordOf(o, name) ==
    [kind |-> "object", keys |-> {"id", "name"}, id |-> ObjectSeg(o), name |-> name]

IsJSONError(resp) ==
    /\ resp.ContentType = "application/json"
    /\ resp.body.kind = "object"
    /\ "error" \in resp.body.keys

Is405(resp, allowed) ==
    /\ resp.status = 405
    /\ resp.Allow = allowed
    /\ IsJSONError(resp)
    /\ resp.body.error = "method not allowed"
    /\ resp.body.allow = allowed

\* C1: a POST /names answered 201 returns the trimmed, non-empty name of its
\* body under the identifier of the stored document, and a GET of
\* /names/<returned id>, with no update or delete of that id in between, is
\* answered 200 with the Record of that id and that name.
C1_CreateThenRead ==
    /\ (Served /\ req.method = "POST" /\ w.status = 201) =>
          /\ req.path = P_names
          /\ req.body.nameKind = "string"
          /\ w.body.name # <<>>
          /\ IsTrimOf(w.body.name, req.body.name)
          /\ \E i \in 1..Len(col) : w.body = RecordOf(col[i].id, col[i].name)
    /\ \A o \in IdPool :
          (Served /\ req.method = "GET" /\ req.path = ItemPath(ObjectSeg(o))
             /\ last[o].via = "POST")
          => (w.status = 200 /\ w.body = RecordOf(o, last[o].name))

C1_Witness ==
    /\ Served /\ req.method = "GET" /\ w.status = 200
    /\ \E o \in IdPool :
          /\ req.path = ItemPath(ObjectSeg(o))
          /\ last[o].via = "POST"
          /\ w.body = RecordOf(o, <<"b", " ", "c">>)

\* C2: GET, PUT with a valid body and DELETE on /names/<id>, for a well-formed
\* id that is not in the store (never created, or deleted), are answered 404
\* and leave the store as it was; a DELETE answered 204 leaves the id out of
\* the store, so that deleting it again is answered 404.
C2_MissingIs404 ==
    [][Serving =>
        \A seg \in Segs :
           (req'.path = ItemPath(seg) /\ WellFormed(seg)) =>
              /\ (/\ ~InStore(col, seg)
                  /\ \/ req'.method \in {"GET", "DELETE"}
                     \/ req'.method = "PUT" /\ GoodBody(req'.body))
                 => (w'.status = 404 /\ col' = col)
              /\ (req'.method = "DELETE" /\ w'.status = 204)
                 => (InStore(col, seg) /\ ~InStore(col', seg))]_vars

C2_Witness ==
    /\ Served /\ req.method = "DELETE" /\ w.status = 404
    /\ \E o \in issued : req.path = ItemPath(ObjectSeg(o)) /\ nDeleted > 0

\* C3: a POST /names or PUT /names/<id> whose body is no JSON or whose `name`
\* is missing, empty or white space, and a GET, PUT or DELETE of /names/<id>
\* with a malformed id, are answered 400 without any call on the store, which
\* is left as it was.
ValidationError(r) ==
    \/ r.method = "POST" /\ r.path = P_names /\ BadBody(r.body)
    \/ \E seg \in Segs :
          /\ r.path = ItemPath(seg)
          /\ \/ r.method \in {"GET", "PUT", "DELETE"} /\ ~WellFormed(seg)
             \/ r.method = "PUT" /\ BadBody(r.body)

C3_ValidationIs400 ==
    [][(Serving /\ ValidationError(req'))
         => (w'.status = 400 /\ IsJSONError(w') /\ ops' = <<>> /\ col' = col)]_vars

C3_Witness ==
    /\ Served /\ req.method = "PUT" /\ w.status = 400 /\ ops = <<>>
    /\ req.path = ItemPath(Zeros(HexLen - 1)) /\ GoodBody(req.body)
    /\ col # <<>>

\* C4: once N POST /names were answered 201 and M DELETE /names/<id> were
\* answered 204, GET /names is answered 200 with exactly N-M Records: every
\* stored record once, and nothing else.
Items(body) == IF body.kind = "array" THEN body.items ELSE <<>>

C4_ListCount ==
    (Served /\ req.method = "GET" /\ req.path = P_names) =>
        /\ w.status = 200
        /\ w.body.kind \in {"array", "null"}
        /\ Len(Items(w.body)) = nCreated - nDeleted
        /\ \A i \in 1..Len(col) :
              Cardinality({k \in 1..Len(Items(w.body)) :
                              Items(w.body)[k] = RecordOf(col[i].id, col[i].name)}) = 1
        /\ \A k \in 1..Len(Items(w.body)) :
              \E i \in 1..Len(col) : Items(w.body)[k] = RecordOf(col[i].id, col[i].name)

C4_Witness ==
    /\ Served /\ req.method = "GET" /\ req.path = P_names /\ w.status = 200
    /\ nCreated = 2 /\ nDeleted = 1 /\ Len(Items(w.body)) = 1

\* C5: GET /names on an empty collection is answered 200 with the JSON empty
\* array [], not null.
C5_EmptyListIsArray ==
    (Served /\ req.method = "GET" /\ req.path = P_names /\ col = <<>>) =>
        (w.status = 200 /\ w.body = [kind |-> "array", items |-> <<>>])

\* C6: a PUT /names/<id> answered 200 returns the trimmed, non-empty name of
\* its body under the identifier of the path, changes the name of the record
\* with that identifier and nothing else, and adds or removes no record; a GET
\* of /names/<id>, with no write to that id in between, is answered 200 with
\* the updated name under the same identifier.
C6_UpdateThenRead ==
    [][Serving =>
        /\ (req'.method = "PUT" /\ HasPrefix(req'.path, P_namesSlash) /\ w'.status = 200) =>
              /\ req'.body.nameKind = "string"
              /\ w'.body.name # <<>>
              /\ IsTrimOf(w'.body.name, req'.body.name)
              /\ \A seg \in Segs : req'.path = ItemPath(seg) => Denotes(seg, ObjectIDFromHex(w'.body.id).oid)
              /\ \E i \in 1..Len(col) : ObjectSeg(col[i].id) = w'.body.id
              /\ Len(col') = Len(col)
              /\ \A i \in 1..Len(col) :
                    IF ObjectSeg(col[i].id) = w'.body.id
                    THEN col'[i] = [id |-> col[i].id, name |-> w'.body.name]
                    ELSE col'[i] = col[i]
        /\ \A o \in IdPool :
              (req'.method = "GET" /\ req'.path = ItemPath(ObjectSeg(o))
                 /\ last[o].via = "PUT")
              => (w'.status = 200 /\ w'.body = RecordOf(o, last[o].name))]_vars

C6_Witness ==
    /\ Served /\ req.method = "GET" /\ w.status = 200 /\ Len(col) = 2
    /\ \E o \in IdPool :
          /\ req.path = ItemPath(ObjectSeg(o))
          /\ last[o].via = "PUT"
          /\ w.body = RecordOf(o, <<"b", " ", "c">>)

\* C7 as claimed: on /names/<id>, every method other than GET, PUT, DELETE
\* (and OPTIONS) is answered 405 enumerating GET, PUT, DELETE, whatever the
\* identifier segment is.
C7_Original ==
    (Served /\ req.method \notin {"GET", "PUT", "DELETE", "OPTIONS"}
       /\ \E seg \in Segs : req.path = ItemPath(seg))
    => Is405(w, <<"GET", "PUT", "DELETE">>)

\* C7 as amended: on /names/<id>, every method other than GET, PUT, DELETE
\* (and OPTIONS) is answered 405 enumerating GET, PUT, DELETE when the
\* identifier segment is well-formed, and 400 "invalid id" when it is not.
C7_OtherMethods ==
    \A seg \in Segs :
       (Served /\ req.method \notin {"GET", "PUT", "DELETE", "OPTIONS"}
          /\ req.path = ItemPath(seg))
       => IF WellFormed(seg)
          THEN Is405(w, <<"GET", "PUT", "DELETE">>)
          ELSE w.status = 400 /\ IsJSONError(w) /\ w.body.error = "invalid id"

C7_Witness ==
    /\ Served /\ req.method = "PATCH" /\ w.status = 405
    /\ \E seg \in Segs : req.path = ItemPath(seg) /\ WellFormed(seg)

\* C8: every error response (400, 404, 405, 500), on every path and method,
\* paths that match no route included, is a JSON body with an `error` key and
\* Content-Type application/json.
C8_ErrorsAreJSON ==
    (Served /\ w.status \in {400, 404, 405, 500}) => IsJSONError(w)

\* C9: in every reachable state every stored record has a non-empty name
\* without surrounding white space and an identifier no other stored record
\* has; no step changes the identifier of a stored record: the identifiers in
\* the store stay as they are, or lose one, or gain one never used before.
StoreInv ==
    /\ \A i \in 1..Len(col) :
          /\ col[i].name # <<>>
          /\ col[i].name[1] \notin WhiteSpace
          /\ col[i].name[Len(col[i].name)] \notin WhiteSpace
    /\ \A i, j \in 1..Len(col) : i # j => col[i].id # col[j].id

IdSeq(c) == [i \in 1..Len(c) |-> c[i].id]

IdsStable ==
    \/ IdSeq(col') = IdSeq(col)
    \/ \E i \in 1..Len(col) : IdSeq(col') = RemoveAt(IdSeq(col), i)
    \/ \E o \in IdPool \ issued : IdSeq(col') = Append(IdSeq(col), o)

C9_StoreInvariant == []StoreInv /\ [][IdsStable]_vars

C9_Witness ==
    /\ Len(col) = 2 /\ nFailed > 0
    /\ \E i \in 1..2 : last[col[i].id].via = "PUT"

\* C10 as claimed: /names/<id>/<extra...> is answered 404 and makes no call on
\* the store.
ExtraSuffixes == {<<"/","x">>, <<"/","x","/","y">>}

C10_Original ==
    (Served /\ req.method # "OPTIONS"
       /\ \E seg \in Segs, suf \in ExtraSuffixes : req.path = ItemPath(seg) \o suf)
    => (w.status = 404 /\ ops = <<>>)

\* C10 as amended: /names/<id>/<extra...> is served as /names/<id> is: the
\* identifier is the first segment after /names/ and the extra segments are
\* ignored, so that the response, the calls on the store and the store left
\* are those of the same request to /names/<id>; a GET of a stored id is
\* answered 200 after one FindOne.
C10_ExtraSegmentsIgnored ==
    [][Serving =>
        \A seg \in Segs, suf \in ExtraSuffixes :
           (req'.method # "OPTIONS" /\ req'.path = ItemPath(seg) \o suf) =>
              LET plain == corsMiddleware(req', col,
                              nameByIDHandler([req' EXCEPT !.path = ItemPath(seg)], col, "ok"))
              IN  /\ w' = plain.w
                  /\ ops' = plain.ops
                  /\ col' = plain.col
                  /\ (req'.method = "GET" /\ WellFormed(seg) /\ InStore(col, seg))
                     => (w'.status = 200 /\ ops' = <<"FindOne">>)
                  /\ ~WellFormed(seg) => w'.status = 400]_vars

C10_Witness ==
    /\ Served /\ req.method = "GET" /\ w.status = 200 /\ ops = <<"FindOne">>
    /\ \E o \in IdPool : req.path = ItemPath(ObjectSeg(o)) \o <<"/","x","/","y">>

====
